---- MODULE Spec2Model ----
(***************************************************************************)
(* Model of the AI Homework Helper backend (main.py): the three routes     *)
(* GET /, POST /login and POST /process_homework, the request validation   *)
(* done by the pydantic models, and the Gemini / Llama branches of the     *)
(* process_homework handler, with the upstream HTTP call as the one point  *)
(* where the handler is suspended.                                         *)
(***************************************************************************)
EXTENDS Integers, Sequences, FiniteSets, TLC

VARIABLES
    GEMINI_API_KEY,   \* os.getenv("GEMINI_API_KEY"), read once at import
    LLAMA_API_KEY,    \* os.getenv("LLAMA_API_KEY"), read once at import
    pc,               \* "idle" | "awaiting" (suspended in client.post)
    request,          \* body of the process_homework request being handled
    outbound,         \* upstream HTTP calls made while handling `request`
    upstream,         \* what the upstream call of `request` came back with
    response,         \* the response to `request`, once the handler has ended
    reply,            \* the last response of GET / or POST /login
    loginPassed       \* history: some /login has succeeded so far

vars == <<GEMINI_API_KEY, LLAMA_API_KEY, pc, request, outbound, upstream,
          response, reply, loginPassed>>

-----------------------------------------------------------------------------
(* Python values, as json.loads and os.getenv produce them. *)

PyNone == [t |-> "NoneType"]
PyStr(s) == [t |-> "str", s |-> s]
PyInt(n) == [t |-> "int", n |-> n]
PyList(items) == [t |-> "list", items |-> items]
PyDict(fields) == [t |-> "dict", fields |-> fields]

\* bool(v): the truth value Python's `not`, `and` and `if` test
Truthy(v) ==
    CASE v.t = "NoneType" -> FALSE
      [] v.t = "str" -> v.s # ""
      [] v.t = "int" -> v.n # 0
      [] v.t = "list" -> Len(v.items) > 0
      [] v.t = "dict" -> DOMAIN v.fields # {}

\* the outcome of evaluating an expression: a value, or an exception raised
Ok(v) == [exc |-> "", v |-> v]
Raise(e) == [exc |-> e, v |-> PyNone]

\* v.get(k)
DictGet(v, k) ==
    IF v.t = "dict"
    THEN Ok(IF k \in DOMAIN v.fields THEN v.fields[k] ELSE PyNone)
    ELSE Raise("AttributeError")

\* v[0]
Subscript0(v) ==
    CASE v.t = "list" ->
            IF Len(v.items) > 0 THEN Ok(v.items[1]) ELSE Raise("IndexError")
      [] v.t = "str" ->
            IF Len(v.s) > 0 THEN Ok(PyStr(SubSeq(v.s, 1, 1)))
            ELSE Raise("IndexError")
      [] v.t = "dict" -> Raise("KeyError")
      [] OTHER -> Raise("TypeError")

\* v[k] for a string key k
SubscriptKey(v, k) ==
    IF v.t = "dict"
    THEN IF k \in DOMAIN v.fields THEN Ok(v.fields[k]) ELSE Raise("KeyError")
    ELSE Raise("TypeError")

-----------------------------------------------------------------------------
(* Bodies on the wire: a JSON document, or text that is not JSON. *)

JNull == [j |-> "null"]
JString(s) == [j |-> "string", s |-> s]
JNumber(n) == [j |-> "number", n |-> n]
JArray(items) == [j |-> "array", items |-> items]
JObject(members) == [j |-> "object", members |-> members]
NotJson(s) == [j |-> "text", s |-> s]

RECURSIVE JsonLoads(_)
\* response.json(): decode the body, JSONDecodeError when it is not JSON
JsonLoads(b) ==
    CASE b.j = "null" -> PyNone
      [] b.j = "string" -> PyStr(b.s)
      [] b.j = "number" -> PyInt(b.n)
      [] b.j = "array" -> PyList([i \in DOMAIN b.items |-> JsonLoads(b.items[i])])
      [] b.j = "object" ->
            PyDict([k \in DOMAIN b.members |-> JsonLoads(b.members[k])])

ResponseJson(b) ==
    IF b.j = "text" THEN Raise("JSONDecodeError") ELSE Ok(JsonLoads(b))

-----------------------------------------------------------------------------
(* HTTP responses of this service. *)

NoDetail == [prefix |-> "", arg |-> JNull]
NoResponse ==
    [kind |-> "none", status |-> 0, output |-> "", model_used |-> "",
     detail |-> NoDetail]

\* raise HTTPException(status_code=status, detail=f"{prefix}{arg}")
HTTPException(status, prefix, arg) ==
    [kind |-> "HTTPException", status |-> status, output |-> "",
     model_used |-> "", detail |-> [prefix |-> prefix, arg |-> arg]]

\* str(e) of a caught exception, as it is interpolated into a detail
ExcText(e) == [j |-> "exception", s |-> e]

\* 422 of FastAPI when the body does not fit the request model
RequestValidationError ==
    [kind |-> "RequestValidationError", status |-> 422, output |-> "",
     model_used |-> "", detail |-> NoDetail]

\* return {"output": ai_output, "model_used": model_used} under
\* response_model=HomeworkResponse (output: str, model_used: str)
ReturnHomeworkResponse(ai_output, model_used) ==
    IF ai_output.t = "str"
    THEN [kind |-> "HomeworkResponse", status |-> 200, output |-> ai_output.s,
          model_used |-> model_used, detail |-> NoDetail]
    ELSE [kind |-> "ResponseValidationError", status |-> 500, output |-> "",
          model_used |-> "", detail |-> NoDetail]

-----------------------------------------------------------------------------
(* POST /process_homework: request model and handler. *)

ApiChoices == {"gemini", "llama"}

\* the JSON body of a request to /process_homework
HomeworkBody(study_content, prompt, api_choice) ==
    JObject([study_content |-> study_content, prompt |-> prompt,
             api_choice |-> api_choice])

IsJsonString(b, k) ==
    k \in DOMAIN b.members /\ b.members[k].j = "string"

\* pydantic validation of the body against HomeworkRequest
ValidHomeworkRequestAny(b) ==
    /\ b.j = "object"
    /\ IsJsonString(b, "study_content")
    /\ IsJsonString(b, "prompt")
    /\ IsJsonString(b, "api_choice")

ValidHomeworkRequest(b) ==
    /\ b.j = "object"
    /\ IsJsonString(b, "study_content")
    /\ IsJsonString(b, "prompt")
    /\ IsJsonString(b, "api_choice")
    /\ b.members["api_choice"].s \in ApiChoices

\* the HomeworkRequest object built from a valid body
HomeworkRequest(b) ==
    [study_content |-> b.members["study_content"].s,
     prompt |-> b.members["prompt"].s,
     api_choice |-> b.members["api_choice"].s]

\* `not KEY`
KeyNeverMissing(key) == FALSE

KeyMissing(key) == ~Truthy(key)

\* f"{KEY}"
FormatKey(key) == IF key.t = "NoneType" THEN "None" ELSE key.s

ModelUsedGemini(req) == "gemini"

\* model_used = request.api_choice
ModelUsed(req) == req.api_choice

FullPromptSwapped(req) ==
    "Study Content: " \o req.prompt \o "\n\nUser Prompt: " \o req.study_content

\* f"Study Content: {request.study_content}\n\nUser Prompt: {request.prompt}"
FullPrompt(req) ==
    "Study Content: " \o req.study_content \o "\n\nUser Prompt: " \o req.prompt

GeminiTimeout == 60

GeminiUrl(key) ==
    "https://generativelanguage.googleapis.com/v1beta/models/gemini-2.0-flash:generateContent?key="
        \o FormatKey(key)

\* the call client.post(gemini_api_url, json=payload, timeout=60.0)
GeminiPost(req, key) ==
    [provider |-> "gemini", method |-> "POST", url |-> GeminiUrl(key),
     json |-> [contents |-> << [role |-> "user",
                                parts |-> << [text |-> FullPrompt(req)] >>] >>],
     timeout |-> GeminiTimeout]

SentinelGemini == "Error: Could not get a valid response from Gemini AI."

\* the if/else on the shape of result, and the extraction of the text
ExtractGemini(result) ==
    IF ~Truthy(result) THEN Ok(PyStr(SentinelGemini)) ELSE
    LET candidates == DictGet(result, "candidates") IN
    IF candidates.exc # "" THEN candidates ELSE
    IF ~Truthy(candidates.v) THEN Ok(PyStr(SentinelGemini)) ELSE
    LET first == Subscript0(candidates.v) IN
    IF first.exc # "" THEN first ELSE
    LET content == DictGet(first.v, "content") IN
    IF content.exc # "" THEN content ELSE
    IF ~Truthy(content.v) THEN Ok(PyStr(SentinelGemini)) ELSE
    LET parts == DictGet(content.v, "parts") IN
    IF parts.exc # "" THEN parts ELSE
    IF ~Truthy(parts.v) THEN Ok(PyStr(SentinelGemini)) ELSE
    LET part == Subscript0(parts.v) IN
    IF part.exc # "" THEN part ELSE
    SubscriptKey(part.v, "text")

\* what the awaited client.post comes back with
RequestError(e) == [kind |-> "RequestError", exc |-> e, status |-> 0, body |-> JNull]
Response(status, body) == [kind |-> "Response", exc |-> "", status |-> status, body |-> body]
NoOutcome == [kind |-> "none", exc |-> "", status |-> 0, body |-> JNull]

\* response.is_success, which raise_for_status() tests
IsSuccess(status) == status >= 200 /\ status <= 299

\* subclasses of httpx.RequestError that a failed POST raises
RequestErrors == {"ConnectError", "ConnectTimeout", "ReadTimeout"}

\* the rest of the try block once client.post has returned or raised
GeminiTry(outcome) ==
    IF outcome.kind = "RequestError" THEN Raise(outcome.exc) ELSE
    IF ~IsSuccess(outcome.status) THEN Raise("HTTPStatusError") ELSE
    LET result == ResponseJson(outcome.body) IN
    IF result.exc # "" THEN result ELSE ExtractGemini(result.v)

OnRequestError500(e) ==
    HTTPException(500, "Gemini API request failed: ", ExcText(e))

\* except httpx.RequestError as e
OnRequestError(e) ==
    HTTPException(503, "Gemini API request failed: ", ExcText(e))

OnHTTPStatusError500(outcome) ==
    HTTPException(500, "Gemini API returned an error: ", outcome.body)

\* except httpx.HTTPStatusError as e
OnHTTPStatusError(outcome) ==
    HTTPException(outcome.status, "Gemini API returned an error: ", outcome.body)

\* except Exception as e
OnException(e) ==
    HTTPException(500, "An unexpected error occurred with Gemini API: ", ExcText(e))

\* the handler from the return of client.post to its end
GeminiResume(req, outcome) ==
    LET t == GeminiTry(outcome) IN
    CASE t.exc = "" -> ReturnHomeworkResponse(t.v, ModelUsed(req))
      [] t.exc \in RequestErrors -> OnRequestError(t.exc)
      [] t.exc = "HTTPStatusError" -> OnHTTPStatusError(outcome)
      [] OTHER -> OnException(t.exc)

SimulatedLlama(req) ==
    "This is a simulated response from Llama AI for: '" \o req.prompt
        \o "' based on your content. (Llama API integration pending)"

\* the handler from its start to its first suspension or its end:
\* the calls it has made, the response if it has ended
HandlerStart(req, geminiKey, llamaKey) ==
    CASE req.api_choice = "gemini" ->
            IF KeyMissing(geminiKey)
            THEN [calls |-> << >>,
                  response |-> HTTPException(500, "Gemini API Key not configured.", JNull)]
            ELSE [calls |-> << GeminiPost(req, geminiKey) >>, response |-> NoResponse]
      [] req.api_choice = "llama" ->
            IF KeyMissing(llamaKey)
            THEN [calls |-> << >>,
                  response |-> HTTPException(500, "Llama API Key not configured.", JNull)]
            ELSE [calls |-> << >>,
                  response |-> ReturnHomeworkResponse(PyStr(SimulatedLlama(req)),
                                                      ModelUsed(req))]
      [] OTHER ->
            [calls |-> << >>,
             response |-> ReturnHomeworkResponse(PyStr(""), ModelUsed(req))]

-----------------------------------------------------------------------------
(* POST /login and GET /. *)

HARDCODED_USERNAME == "user"
HARDCODED_PASSWORD == "password123"

NoReply == [route |-> "", status |-> 0, message |-> ""]

\* the body of login(request)
LoginReply(username, password) ==
    IF username = HARDCODED_USERNAME /\ password = HARDCODED_PASSWORD
    THEN [route |-> "/login", status |-> 200, message |-> "Login successful!"]
    ELSE [route |-> "/login", status |-> 401, message |-> "Invalid credentials"]

RootReply ==
    [route |-> "/", status |-> 200,
     message |-> "AI Homework Helper Backend is running!"]

-----------------------------------------------------------------------------
(* The inputs the model enumerates. *)

KeyValues == {PyNone, PyStr(""), PyStr("AIza-key")}

StudyContents == {"", "Photosynthesis basics"}
Prompts == {"", "Summarize in 2 sentences"}
RequestedChoices == {"gemini", "llama", "openai"}

HomeworkBodies ==
    { HomeworkBody(JString(c), JString(p), JString(a)) :
        c \in StudyContents, p \in Prompts, a \in RequestedChoices }
    \cup { JObject([study_content |-> JString("Photosynthesis basics"),
                    api_choice |-> JString("gemini")]),
           HomeworkBody(JString(""), JString(""), JNumber(1)),
           JArray(<< >>) }

Usernames == {"user", "admin"}
Passwords == {"password123", "secure123"}

Part(text) == JObject([text |-> text])
Candidates(parts) ==
    JObject([candidates |-> JArray(<< JObject([content |-> JObject([parts |-> parts])]) >>)])

\* bodies with the shape of a generateContent reply
WellFormedBodies ==
    { Candidates(JArray(<< Part(JString("Plants convert light to energy.")) >>)),
      Candidates(JArray(<< Part(JString("")) >>)),
      Candidates(JArray(<< Part(JString("first")), Part(JString("second")) >>)) }

\* bodies of any other shape
MalformedBodies ==
    { NotJson("<html>Bad Gateway</html>"),
      NotJson(""),
      JNull,
      JNumber(0),
      JNumber(7),
      JString("quota exceeded"),
      JArray(<< >>),
      JArray(<< JNumber(1) >>),
      JObject(<< >>),
      JObject([error |-> JString("quota exceeded")]),
      JObject([candidates |-> JArray(<< >>)]),
      JObject([candidates |-> JArray(<< JNull >>)]),
      JObject([candidates |-> JString("abc")]),
      JObject([candidates |-> JObject([content |-> JNull])]),
      JObject([candidates |-> JArray(<< JObject([finishReason |-> JString("SAFETY")]) >>)]),
      JObject([candidates |-> JArray(<< JObject([content |-> JString("abc")]) >>)]),
      JObject([candidates |-> JArray(<< JObject([content |-> JObject([role |-> JString("model")])]) >>)]),
      Candidates(JArray(<< >>)),
      Candidates(JString("ab")),
      Candidates(JArray(<< JObject(<< >>) >>)),
      Candidates(JArray(<< JObject([inlineData |-> JString("x")]) >>)),
      Candidates(JArray(<< Part(JNull) >>)) }

Bodies == WellFormedBodies \cup MalformedBodies

Statuses == {200, 201, 301, 404, 429, 500, 503}

Outcomes ==
    { RequestError(e) : e \in RequestErrors }
    \cup { Response(st, b) : st \in Statuses, b \in Bodies }

-----------------------------------------------------------------------------
(* The service. *)

Init ==
    /\ GEMINI_API_KEY \in KeyValues
    /\ LLAMA_API_KEY \in KeyValues
    /\ pc = "idle"
    /\ request = JNull
    /\ outbound = << >>
    /\ upstream = NoOutcome
    /\ response = NoResponse
    /\ reply = NoReply
    /\ loginPassed = FALSE

\* GET /
read_root ==
    /\ reply' = RootReply
    /\ UNCHANGED <<GEMINI_API_KEY, LLAMA_API_KEY, pc, request, outbound,
                   upstream, response, loginPassed>>

\* POST /login
login ==
    \E u \in Usernames, p \in Passwords :
        /\ reply' = LoginReply(u, p)
        /\ loginPassed' = (loginPassed \/ LoginReply(u, p).status = 200)
        /\ UNCHANGED <<GEMINI_API_KEY, LLAMA_API_KEY, pc, request, outbound,
                       upstream, response>>

\* POST /process_homework, up to the await of client.post or to the end
process_homework ==
    \E b \in HomeworkBodies :
        /\ pc = "idle"
        /\ request' = b
        /\ upstream' = NoOutcome
        /\ IF ~ValidHomeworkRequest(b)
           THEN /\ outbound' = << >>
                /\ response' = RequestValidationError
                /\ pc' = "idle"
           ELSE LET h == HandlerStart(HomeworkRequest(b), GEMINI_API_KEY,
                                      LLAMA_API_KEY)
                IN /\ outbound' = h.calls
                   /\ response' = h.response
                   /\ pc' = IF h.response = NoResponse THEN "awaiting" ELSE "idle"
        /\ UNCHANGED <<GEMINI_API_KEY, LLAMA_API_KEY, reply, loginPassed>>

gemini_completes_retry ==
    \E o \in Outcomes :
        /\ pc = "awaiting"
        /\ upstream' = o
        /\ IF o.kind = "RequestError" /\ Len(outbound) < 2
           THEN /\ outbound' = Append(outbound, outbound[1])
                /\ response' = NoResponse
                /\ pc' = "awaiting"
           ELSE /\ outbound' = outbound
                /\ response' = GeminiResume(HomeworkRequest(request), o)
                /\ pc' = "idle"
        /\ UNCHANGED <<GEMINI_API_KEY, LLAMA_API_KEY, request, reply, loginPassed>>

\* client.post returns or raises, and the handler runs to its end
gemini_completes ==
    \E o \in Outcomes :
        /\ pc = "awaiting"
        /\ upstream' = o
        /\ response' = GeminiResume(HomeworkRequest(request), o)
        /\ pc' = "idle"
        /\ UNCHANGED <<GEMINI_API_KEY, LLAMA_API_KEY, request, outbound, reply,
                       loginPassed>>

Next == read_root \/ login \/ process_homework \/ gemini_completes

Spec == Init /\ [][Next]_vars

-----------------------------------------------------------------------------
(* Vocabulary of the properties, read off the request and reply bodies. *)

\* the api_choice member of the request body, when it has one
HasChoice == request.j = "object" /\ "api_choice" \in DOMAIN request.members
Chose(a) == HasChoice /\ request.members["api_choice"] = JString(a)

\* the environment value of a provider's credential is unset or empty
Absent(key) == key = PyNone \/ key = PyStr("")

HasMember(b, k) == b.j = "object" /\ k \in DOMAIN b.members
NonEmptyArray(b) == b.j = "array" /\ Len(b.items) > 0

\* the body is a generateContent reply: a non-empty candidates list whose
\* first candidate has content with a non-empty parts list whose first part
\* has text
ExpectedGeminiShape(b) ==
    /\ HasMember(b, "candidates")
    /\ NonEmptyArray(b.members["candidates"])
    /\ HasMember(b.members["candidates"].items[1], "content")
    /\ HasMember(b.members["candidates"].items[1].members["content"], "parts")
    /\ NonEmptyArray(b.members["candidates"].items[1].members["content"].members["parts"])
    /\ HasMember(b.members["candidates"].items[1].members["content"].members["parts"].items[1],
                 "text")

FirstPartText(b) ==
    b.members["candidates"].items[1].members["content"].members["parts"].items[1].members["text"]

UpstreamSucceeded ==
    upstream.kind = "Response" /\ upstream.status \in 200..299
UpstreamErrorStatus ==
    upstream.kind = "Response" /\ upstream.status \notin 200..299

\* C1: when the upstream call completes with a success status and a body
\* that has not the expected shape, the handler returns a 200
\* HomeworkResponse whose output is the sentinel text, never an error.
C1_MalformedBodyYieldsSentinel ==
    (pc = "idle" /\ UpstreamSucceeded /\ ~ExpectedGeminiShape(upstream.body))
        => /\ response.kind = "HomeworkResponse"
           /\ response.status = 200
           /\ response.output = SentinelGemini

\* C2: a llama request with the Llama credential present makes exactly one
\* HTTP POST, to the chat-completions endpoint of the Llama provider.
C2_LlamaPostsToChatCompletions ==
    (Chose("llama") /\ ~Absent(LLAMA_API_KEY) /\ pc = "idle")
        => /\ Len(outbound) = 1
           /\ outbound[1].provider = "llama"
           /\ outbound[1].method = "POST"

\* C3: when the credential of the chosen provider is absent, the request
\* makes no upstream call at any point and fails with HTTP status 500.
C3_AbsentCredentialNoCall500 ==
    \A a \in ApiChoices :
        (Chose(a) /\ ValidHomeworkRequest(request)
                  /\ Absent(IF a = "gemini" THEN GEMINI_API_KEY ELSE LLAMA_API_KEY))
            => /\ outbound = << >>
               /\ pc = "idle"
               /\ upstream = NoOutcome
               /\ response.kind = "HTTPException"
               /\ response.status = 500

C3_Witness ==
    /\ Chose("gemini")
    /\ GEMINI_API_KEY = PyNone
    /\ response.status = 500
    /\ outbound = << >>

\* C4: when the upstream call returns a non-success status s, the handler
\* fails with status exactly s and a message carrying the upstream body.
C4_UpstreamStatusForwarded ==
    (pc = "idle" /\ UpstreamErrorStatus)
        => /\ response.kind = "HTTPException"
           /\ response.status = upstream.status
           /\ response.detail.arg = upstream.body

C4_Witness ==
    /\ pc = "idle"
    /\ upstream.kind = "Response"
    /\ upstream.status = 429
    /\ upstream.body = JObject([error |-> JString("quota exceeded")])
    /\ response.status = 429

\* C5: when the upstream call fails at the transport level, the handler
\* fails with HTTP status 503, never a success, 500 or an upstream status.
C5_TransportFailureIs503 ==
    (pc = "idle" /\ upstream.kind = "RequestError")
        => /\ response.kind = "HTTPException"
           /\ response.status = 503

C5_Witness ==
    /\ pc = "idle"
    /\ upstream.kind = "RequestError"
    /\ upstream.exc = "ReadTimeout"
    /\ response.status = 503

\* C6: a request whose api_choice is neither gemini nor llama is rejected by
\* validation: no configuration error, no upstream call, no HomeworkResponse.
C6_OutOfEnumerationRejected ==
    (HasChoice /\ ~Chose("gemini") /\ ~Chose("llama"))
        => /\ response.kind = "RequestValidationError"
           /\ outbound = << >>
           /\ upstream = NoOutcome
           /\ pc = "idle"

C6_Witness ==
    /\ Chose("openai")
    /\ response.kind = "RequestValidationError"
    /\ response.status = 422

\* C7: every returned HomeworkResponse, the sentinel one included, has
\* model_used equal to the api_choice of its request.
C7_ModelUsedIsApiChoice ==
    response.kind = "HomeworkResponse"
        => /\ HasChoice
           /\ request.members["api_choice"] = JString(response.model_used)

C7_Witness ==
    /\ Chose("llama")
    /\ response.kind = "HomeworkResponse"
    /\ response.model_used = "llama"

\* C8: a gemini request with the credential present sends upstream the single
\* user message "Study Content: {study_content}\n\nUser Prompt: {prompt}" of
\* its own fields, and on a success status with a well-formed body returns
\* the text of the first part of the first candidate unchanged.
C8_GeminiPromptAndOutput ==
    (Chose("gemini") /\ ValidHomeworkRequest(request) /\ ~Absent(GEMINI_API_KEY))
        => /\ Len(outbound) = 1
           /\ outbound[1].provider = "gemini"
           /\ outbound[1].json.contents =
                << [role |-> "user",
                    parts |-> << [text |-> "Study Content: "
                                    \o request.members["study_content"].s
                                    \o "\n\nUser Prompt: "
                                    \o request.members["prompt"].s] >>] >>
           /\ (pc = "idle" /\ UpstreamSucceeded
                  /\ ExpectedGeminiShape(upstream.body)
                  /\ FirstPartText(upstream.body).j = "string")
                => /\ response.kind = "HomeworkResponse"
                   /\ response.output = FirstPartText(upstream.body).s

C8_Witness ==
    /\ request = HomeworkBody(JString("Photosynthesis basics"),
                              JString("Summarize in 2 sentences"), JString("gemini"))
    /\ pc = "idle"
    /\ upstream.status = 200
    /\ response.kind = "HomeworkResponse"
    /\ response.output = "Plants convert light to energy."

\* C9: no process_homework request is dispatched (credential lookup,
\* upstream call or HomeworkResponse) before the fixed-credential check of
\* /login has been passed.
C9_AuthGateBeforeDispatch ==
    (pc = "awaiting" \/ outbound # << >>
        \/ response.kind \in {"HomeworkResponse", "HTTPException"})
        => loginPassed

\* C10: a request makes at most one upstream call, to the provider named by
\* its api_choice, and once that call has come back, failed or not, the
\* handler has ended with the failure surfaced.
C10_AtMostOneCallNoFallback ==
    /\ Len(outbound) <= 1
    /\ \A i \in DOMAIN outbound : Chose(outbound[i].provider)
    /\ upstream.kind # "none" => (pc = "idle" /\ response.kind # "none")

C10_Witness ==
    /\ pc = "idle"
    /\ upstream.kind = "RequestError"
    /\ upstream.exc = "ConnectError"
    /\ Len(outbound) = 1
    /\ response.kind = "HTTPException"

====
